---- MODULE Spec2Model ----
(***************************************************************************)
(* A model of pyro's BuildFacade (src/pyro/BuildFacade.py): construction   *)
(* with log rotation, the compile stage (sequential and pooled), the       *)
(* incremental analyzer, and the anonymize / pack / zip stages.            *)
(*                                                                         *)
(* Strings are sequences of tokens: a path is                              *)
(*   <<directory, "/", letter, ..., extension>>                            *)
(* so that basename, splitext and endswith are computed, not assumed.      *)
(***************************************************************************)
EXTENDS Integers, Sequences, FiniteSets, TLC

\* ------------------------------------------------------------------ bounds
\* longest command list the project collaborator hands to try_compile
MaxCommands == 3
\* how many times try_compile is called in one process (all facades together)
MaxCompiles == 2
\* longest list of source scripts / of compiled artifacts of a project
MaxScripts == 2
MaxArtifacts == 2
\* timestamps of the run logs that may already be in the log directory
MaxLogs == 6

\* how many runs of the program follow one another on the same log directory
MaxRuns == 8
\* largest retention count _rotate_logs is called with directly, and the run logs
\* that may be in the directory then
MaxKeep == 3
MaxHelperLogs == 3

\* ------------------------------------------------------- program constants
\* _rotate_logs(5) in __init__
KeepCount == 5

\* the timestamps of source scripts and artifacts: two instants are enough for a
\* source to be older than, as old as, or newer than an artifact
Times == {1, 2}

\* the BuildFacade objects of one process
Facades == {1, 2}

SUCCESS == "SUCCESS"
FAILURE == "FAILURE"
PENDING == "PENDING"

\* --------------------------------------------------------------- sequences
Range(s) == {s[i] : i \in 1..Len(s)}

Min(a, b) == IF a < b THEN a ELSE b

\* the sequences of length 0..n of pairwise different elements of S
RECURSIVE DistinctSeqs(_, _)
DistinctSeqs(S, n) ==
    IF n = 0 THEN {<<>>}
    ELSE LET shorter == DistinctSeqs(S, n - 1)
         IN  shorter \cup
             UNION {{Append(s, x) : x \in S \ Range(s)} :
                        s \in {t \in shorter : Len(t) = n - 1}}

\* every ordering of the finite set S
RECURSIVE Orderings(_)
Orderings(S) ==
    IF S = {} THEN {<<>>}
    ELSE UNION {{<<x>> \o rest : rest \in Orderings(S \ {x})} : x \in S}

\* ------------------------------------------------------- strings and paths
\* str.endswith
EndsWith(s, suffix) ==
    /\ Len(suffix) <= Len(s)
    /\ SubSeq(s, Len(s) - Len(suffix) + 1, Len(s)) = suffix

IsExtension(token) == token \in {".psc", ".pex", ".log", ".txt"}

\* os.path.basename: what follows the last separator
RECURSIVE Basename(_)
Basename(path) ==
    IF \E i \in 1..Len(path) : path[i] = "/"
    THEN Basename(Tail(path))
    ELSE path

\* os.path.splitext(...)[0]: the name without its extension
StripExt(name) ==
    IF Len(name) > 1 /\ IsExtension(name[Len(name)])
    THEN SubSeq(name, 1, Len(name) - 1)
    ELSE name

\* script_name of line 110
ScriptName(psc_path) == StripExt(Basename(psc_path))

\* the base names of the scripts of the modelled projects; the second ends
\* with the first, as MyQuest ends with Quest
ScriptNames == {<<"a">>, <<"b", "a">>, <<"b">>}

PscPath(name) == <<"src", "/">> \o name \o <<".psc">>
PexPath(name) == <<"out", "/">> \o name \o <<".pex">>

PscUniverse == {PscPath(n) : n \in ScriptNames}
PexUniverse == {PexPath(n) : n \in ScriptNames}

\* ------------------------------------------------------------------- state
VARIABLES
    \* the process
    now,             \* what time.time() returns next
    time_elapsed,    \* BuildFacade.time_elapsed, one TimeElapsed object of the class
    pc,              \* where the main thread is: "idle" or inside a method
    self,            \* the facade whose method is running, 0 when idle
    \* the resolved project (read-only)
    commands,        \* ppj.build_commands(): the ordered command list
    verdict,         \* what the external compiler reports for each command
    psc_paths,       \* ppj.psc_paths
    pex_paths,       \* ppj.pex_paths
    missing_scripts, \* ppj.missing_scripts
    \* the file system
    psc_mtime,       \* os.path.getmtime of each source script
    pex_file,        \* each artifact: on disk or not, magic known or not, compile time
    log_dir,         \* options.log_path: whether it is a directory, and its file names
    \* the facades
    built,           \* the facades whose __init__ has returned
    options,         \* ppj.options of each facade
    scripts_count,
    success_count,
    command_count,
    \* try_compile in progress
    i,               \* index of the command the main loop handles next
    results,         \* outcome reported for each command of the running/last call
    ran,             \* how many times that call has run each command
    worker,          \* state of each pool worker
    task,            \* the command each busy worker runs
    next_task,       \* head of the pool's task queue
    priority,        \* process 0 (the main process) and each worker process:
                     \* its calls of process.nice and whether its priority is lowered
    compile_calls,   \* history: number of try_compile calls of each facade
    success_before,  \* history: success_count when the running/last call began
    \* __init__ in progress
    keep,            \* the argument of the running/last _rotate_logs call
    logs_to_remove,  \* line 98
    attempts,        \* the os.remove calls made so far: <<file, outcome>>
    init_result,     \* how the last __init__ ended, and the log it wrote
    \* stage outputs
    anon,            \* what the last try_anonymize did
    report           \* what the last read of build_time was computed from

projectVars == <<commands, verdict, psc_paths, pex_paths, missing_scripts>>
fileVars == <<psc_mtime, pex_file>>
statVars == <<scripts_count, success_count, command_count, time_elapsed>>
poolVars == <<worker, task, next_task, priority>>
compileVars == <<i, results, ran, poolVars, compile_calls, success_before>>
initVars == <<keep, logs_to_remove, attempts, init_result>>
stageVars == <<anon, report>>

vars == <<now, pc, self, projectVars, fileVars, log_dir, built, options, statVars,
          compileVars, initVars, stageVars>>

\* -------------------------------------------------- the incremental analyzer
\* PathHelper.uniqify: duplicates removed, first occurrence kept
RECURSIVE Uniqify(_)
Uniqify(s) ==
    IF s = <<>> THEN <<>>
    ELSE LET front == Uniqify(SubSeq(s, 1, Len(s) - 1))
             last == s[Len(s)]
         IN  IF last \in Range(front) THEN front ELSE Append(front, last)

\* line 113: the artifacts whose path ends with '<script_name>.pex'
PexMatch(psc_path, pexs) ==
    SelectSeq(pexs, LAMBDA pex_path : EndsWith(pex_path, ScriptName(psc_path) \o <<".pex">>))

\* what an artifact path can be on disk
AbsentPex == [exists |-> FALSE, magic |-> FALSE, compiled |-> 0]
BadMagicPex == [exists |-> TRUE, magic |-> FALSE, compiled |-> 0]
CompiledPex(t) == [exists |-> TRUE, magic |-> TRUE, compiled |-> t]
PexStates == {AbsentPex, BadMagicPex} \cup {CompiledPex(t) : t \in Times}

\* os.path.isfile(pex_path)
IsFile(pex_path, files) == files[pex_path].exists

\* PexReader.get_header raises ValueError on an unknown magic
HeaderReadable(pex_path, files) == files[pex_path].magic

\* line 131
IsOlder(psc_last_modified, pex_last_compiled) ==
    psc_last_modified < pex_last_compiled

\* lines 110-132, one iteration: what one source script appends to pex_paths
Contribution(psc_path, pexs, mtime, files) ==
    LET pex_match == PexMatch(psc_path, pexs)
    IN  IF pex_match = <<>> THEN <<>>
        ELSE LET pex_path == pex_match[1]
             IN  IF ~IsFile(pex_path, files) THEN <<>>
                 ELSE IF ~HeaderReadable(pex_path, files) THEN <<>>
                 ELSE IF IsOlder(mtime[psc_path], files[pex_path].compiled) THEN <<pex_path>>
                 ELSE <<>>

\* lines 107-132: the list before uniqify
RECURSIVE UpToDate(_, _, _, _)
UpToDate(pscs, pexs, mtime, files) ==
    IF pscs = <<>> THEN <<>>
    ELSE Contribution(Head(pscs), pexs, mtime, files) \o UpToDate(Tail(pscs), pexs, mtime, files)

\* _find_modified_scripts, line 134 (the variant returns the list as collected)
FindModifiedScriptsMutant(pscs, pexs, mtime, files) == UpToDate(pscs, pexs, mtime, files)
FindModifiedScripts(pscs, pexs, mtime, files) == Uniqify(UpToDate(pscs, pexs, mtime, files))

\* ------------------------------------------------------------ try_anonymize
\* line 170 (the variant ignores no_incremental_build)
SkipAnonymizeMutant(scripts, missing, no_incremental_build) ==
    scripts = <<>> /\ missing = {}
SkipAnonymize(scripts, missing, no_incremental_build) ==
    scripts = <<>> /\ missing = {} /\ ~no_incremental_build

\* lines 174-179: the paths Anonymizer.anonymize_script is called with, in order
\* (the variant leaves the loop at the first path that is not a file)
AnonymizedMutant(pexs, files) ==
    LET absent == {k \in 1..Len(pexs) : ~IsFile(pexs[k], files)}
    IN  IF absent = {} THEN pexs
        ELSE SubSeq(pexs, 1, (CHOOSE k \in absent : \A j \in absent : k <= j) - 1)
Anonymized(pexs, files) == SelectSeq(pexs, LAMBDA pex_path : IsFile(pex_path, files))

\* lines 175-177: the paths a warning is logged for, in order
NotLocated(pexs, files) == SelectSeq(pexs, LAMBDA pex_path : ~IsFile(pex_path, files))

NoAnon == [facade |-> 0, scripts |-> <<>>, error |-> FALSE,
           anonymized |-> <<>>, warnings |-> <<>>]

\* lines 166-179, the whole method
TryAnonymize(o) ==
    /\ pc = "idle" /\ o \in built
    /\ LET scripts == FindModifiedScripts(psc_paths, pex_paths, psc_mtime, pex_file)
           skip == SkipAnonymize(scripts, missing_scripts, options[o].no_incremental_build)
       IN  anon' = [facade |-> o,
                    scripts |-> scripts,
                    error |-> skip,
                    anonymized |-> IF skip THEN <<>> ELSE Anonymized(pex_paths, pex_file),
                    warnings |-> IF skip THEN <<>> ELSE NotLocated(pex_paths, pex_file)]
    /\ UNCHANGED <<now, pc, self, projectVars, fileVars, log_dir, built, options, statVars,
                   compileVars, initVars, report>>

\* ------------------------------------------------------- try_pack, try_zip
\* lines 181-184: PackageManager(self.ppj).create_packages() touches nothing of the
\* facade, the project view or the files modelled here
TryPack(o) ==
    /\ pc = "idle" /\ o \in built
    /\ UNCHANGED vars

\* lines 186-189
TryZip(o) ==
    /\ pc = "idle" /\ o \in built
    /\ UNCHANGED vars

\* ---------------------------------------------------------------- build_time
\* TimeElapsed.value(): the time between the two recorded instants
Value(te) == te.end_time - te.start_time

\* TimeElapsed.average(n): the quotient value / n as the pair <<numerator,
\* denominator>>, the value itself when n is 0
Average(te, n) == IF n > 0 THEN <<Value(te), n>> ELSE <<Value(te), 1>>

\* lines 34-36
FailedCount(o) == command_count[o] - success_count[o]

NoReport == [facade |-> 0, raw_time |-> 0, avg_time |-> <<0, 1>>,
             succeeded |-> 0, failed |-> 0, scripts |-> 0]

\* lines 38-47: the property reads the statistics and formats them
BuildTime(o) ==
    /\ pc = "idle" /\ o \in built
    /\ report' = [facade |-> o,
                  raw_time |-> Value(time_elapsed),
                  avg_time |-> Average(time_elapsed, success_count[o]),
                  succeeded |-> success_count[o],
                  failed |-> FailedCount(o),
                  scripts |-> scripts_count[o]]
    /\ UNCHANGED <<now, pc, self, projectVars, fileVars, log_dir, built, options, statVars,
                   compileVars, initVars, anon>>

\* -------------------------------------------------------------- try_compile
NoOptions == [log_path |-> FALSE, no_parallel |-> FALSE, worker_limit |-> 1,
              no_incremental_build |-> FALSE]

\* ProcessManager.run_compiler: the outcome the external compiler reports
RunCompiler(command) == verdict[command]

\* lines 149 and 153: which branch try_compile takes
\* (the variant sends a single command to a pool)
StrategyMutant(no_parallel, count) ==
    IF no_parallel THEN "seq"
    ELSE IF count > 0 THEN "pool"
    ELSE "none"
Strategy(no_parallel, count) ==
    IF no_parallel \/ count = 1 THEN "seq"
    ELSE IF count > 0 THEN "pool"
    ELSE "none"

\* line 155 (the variant sizes the pool by worker_limit alone)
PoolSizeMutant(count, worker_limit) == worker_limit
PoolSize(count, worker_limit) == Min(count, worker_limit)

\* lines 151-152 (the variant counts every outcome)
SeqTallyMutant(count, state) == count + 1
SeqTally(count, state) == IF state = SUCCESS THEN count + 1 ELSE count

\* line 150: the loop goes on to the next command whatever the outcome
\* (the variant leaves the loop at the first failure)
SeqNextMutant(index, state) == IF state = SUCCESS THEN index + 1 ELSE Len(commands) + 1
SeqNext(index, state) == index + 1

\* lines 159-160 (the variant loses every increment after the first)
PoolTallyMutant(count, state) == IF state = SUCCESS /\ count = 0 THEN count + 1 ELSE count
PoolTally(count, state) == IF state = SUCCESS THEN count + 1 ELSE count

\* the priority of a process that has not called _limit_priority
NormalPriority == [calls |-> 0, low |-> FALSE]

\* lines 138-139: process.nice(...) on the calling process
\* (the variant leaves the priority as it is)
LimitPriorityMutant(p) == p
LimitPriority(p) == [calls |-> p.calls + 1, low |-> TRUE]

\* process.nice raises (psutil.AccessDenied): the priority stays as it was
LimitPriorityRefused(p) == [calls |-> p.calls + 1, low |-> p.low]

TotalCalls == compile_calls[1] + compile_calls[2]

\* lines 143-149/153-157: entry of try_compile up to the chosen branch
CompileBegin(o) ==
    /\ pc = "idle" /\ o \in built
    /\ TotalCalls < MaxCompiles
    /\ LET count == Len(commands)
           branch == Strategy(options[o].no_parallel, count)
       IN  /\ command_count' = [command_count EXCEPT ![o] = count]
           /\ time_elapsed' = [time_elapsed EXCEPT !.start_time = now]
           /\ now' = now + 1
           /\ pc' = branch
           /\ self' = o
           /\ i' = 1
           /\ results' = [k \in 1..count |-> PENDING]
           /\ ran' = [k \in 1..count |-> 0]
           /\ worker' = IF branch = "pool"
                        THEN [w \in 1..PoolSize(count, options[o].worker_limit) |-> "starting"]
                        ELSE <<>>
           /\ task' = [w \in DOMAIN worker' |-> 0]
           /\ next_task' = 1
           /\ priority' = [p \in {0} \cup DOMAIN worker' |->
                               IF p = 0 THEN priority[0] ELSE NormalPriority]
    /\ compile_calls' = [compile_calls EXCEPT ![o] = @ + 1]
    /\ success_before' = [success_before EXCEPT ![o] = success_count[o]]
    /\ UNCHANGED <<projectVars, fileVars, log_dir, built, options, scripts_count,
                   success_count, initVars, stageVars>>

\* lines 150-152, one iteration
SeqStep ==
    /\ pc = "seq" /\ i <= Len(commands)
    /\ LET state == RunCompiler(commands[i])
       IN  /\ results' = [results EXCEPT ![i] = state]
           /\ ran' = [ran EXCEPT ![i] = @ + 1]
           /\ success_count' = [success_count EXCEPT ![self] = SeqTally(@, state)]
           /\ i' = SeqNext(i, state)
    /\ UNCHANGED <<now, pc, self, projectVars, fileVars, log_dir, built, options,
                   scripts_count, command_count, time_elapsed, poolVars, compile_calls,
                   success_before, initVars, stageVars>>

\* a pool worker runs the initializer _limit_priority (lines 136-139, 157)
WorkerInit(w) ==
    /\ pc \in {"pool", "join"} /\ w \in DOMAIN worker
    /\ worker[w] = "starting"
    /\ worker' = [worker EXCEPT ![w] = "ready"]
    /\ priority' = [priority EXCEPT ![w] = LimitPriority(@)]
    /\ UNCHANGED <<now, pc, self, projectVars, fileVars, log_dir, built, options, statVars,
                   i, results, ran, task, next_task, compile_calls, success_before,
                   initVars, stageVars>>

\* the initializer raises (psutil refuses the priority change): the worker process dies
WorkerInitFail(w) ==
    /\ pc \in {"pool", "join"} /\ w \in DOMAIN worker
    /\ worker[w] = "starting"
    /\ worker' = [worker EXCEPT ![w] = "ended"]
    /\ priority' = [priority EXCEPT ![w] = LimitPriorityRefused(@)]
    /\ UNCHANGED <<now, pc, self, projectVars, fileVars, log_dir, built, options, statVars,
                   i, results, ran, task, next_task, compile_calls, success_before,
                   initVars, stageVars>>

\* a running pool replaces a dead worker by a new process, which runs the initializer
PoolRespawn(w) ==
    /\ pc = "pool" /\ w \in DOMAIN worker
    /\ worker[w] = "ended"
    /\ worker' = [worker EXCEPT ![w] = "starting"]
    /\ priority' = [priority EXCEPT ![w] = NormalPriority]
    /\ UNCHANGED <<now, pc, self, projectVars, fileVars, log_dir, built, options, statVars,
                   i, results, ran, task, next_task, compile_calls, success_before,
                   initVars, stageVars>>

\* a ready worker takes the head of the task queue (imap feeds it in list order)
WorkerTake(w) ==
    /\ pc = "pool" /\ w \in DOMAIN worker
    /\ worker[w] = "ready"
    /\ next_task <= Len(commands)
    /\ worker' = [worker EXCEPT ![w] = "busy"]
    /\ task' = [task EXCEPT ![w] = next_task]
    /\ next_task' = next_task + 1
    /\ UNCHANGED <<now, pc, self, projectVars, fileVars, log_dir, built, options, statVars,
                   i, results, ran, priority, compile_calls, success_before, initVars,
                   stageVars>>

\* the worker's run_compiler call returns and the outcome goes to the result queue
WorkerFinish(w) ==
    /\ pc = "pool" /\ w \in DOMAIN worker
    /\ worker[w] = "busy"
    /\ results' = [results EXCEPT ![task[w]] = RunCompiler(commands[task[w]])]
    /\ ran' = [ran EXCEPT ![task[w]] = @ + 1]
    /\ worker' = [worker EXCEPT ![w] = "ready"]
    /\ task' = [task EXCEPT ![w] = 0]
    /\ UNCHANGED <<now, pc, self, projectVars, fileVars, log_dir, built, options, statVars,
                   i, next_task, priority, compile_calls, success_before, initVars,
                   stageVars>>

\* lines 158-160, one iteration: imap yields the outcomes in list order
Collect ==
    /\ pc = "pool" /\ i <= Len(commands)
    /\ results[i] # PENDING
    /\ success_count' = [success_count EXCEPT ![self] = PoolTally(@, results[i])]
    /\ i' = i + 1
    /\ UNCHANGED <<now, pc, self, projectVars, fileVars, log_dir, built, options,
                   scripts_count, command_count, time_elapsed, results, ran, poolVars,
                   compile_calls, success_before, initVars, stageVars>>

\* line 161, reached when imap is exhausted
PoolClose ==
    /\ pc = "pool" /\ i > Len(commands)
    /\ pc' = "join"
    /\ UNCHANGED <<now, self, projectVars, fileVars, log_dir, built, options, statVars,
                   compileVars, initVars, stageVars>>

\* a worker of a closed pool reads the sentinel and exits
WorkerExit(w) ==
    /\ pc = "join" /\ w \in DOMAIN worker
    /\ worker[w] = "ready"
    /\ worker' = [worker EXCEPT ![w] = "ended"]
    /\ UNCHANGED <<now, pc, self, projectVars, fileVars, log_dir, built, options, statVars,
                   i, results, ran, task, next_task, priority, compile_calls,
                   success_before, initVars, stageVars>>

\* line 162: join returns when every worker process has ended
\* (the variant does not wait)
PoolJoinedMutant == TRUE
PoolJoined == \A w \in DOMAIN worker : worker[w] = "ended"

\* line 164, reached from the end of either loop or with no branch taken
CompileEnd ==
    /\ \/ pc = "seq" /\ i > Len(commands)
       \/ pc = "join" /\ PoolJoined
       \/ pc = "none"
    /\ time_elapsed' = [time_elapsed EXCEPT !.end_time = now]
    /\ now' = now + 1
    /\ pc' = "idle"
    /\ self' = 0
    /\ UNCHANGED <<projectVars, fileVars, log_dir, built, options, scripts_count,
                   success_count, command_count, compileVars, initVars, stageVars>>

\* ------------------------------------------------- __init__ and _rotate_logs
LogName(t) == <<"pyro-", t, ".log">>
OtherFile == <<"notes", 0, ".txt">>

\* os.listdir: the names of the directory, in arbitrary order
ListDir(dir) == Orderings(dir)

\* line 91
LogFiles(listing) == SelectSeq(listing, LAMBDA f : EndsWith(f, <<".log">>))

\* line 97: log_paths[-keep_count:] (Python: -0 is 0, so keep_count = 0 keeps all)
Retain(log_paths, keep_count) ==
    IF keep_count = 0 \/ keep_count >= Len(log_paths) THEN log_paths
    ELSE SubSeq(log_paths, Len(log_paths) - keep_count + 1, Len(log_paths))

\* lines 89-98: the removal candidates for one directory listing
\* (the variant does not make room for the log about to be written, line 89)
LogsToRemoveMutant(listing, keep_count) ==
    LET log_paths == LogFiles(listing)
    IN  IF ~(Len(log_paths) > keep_count) THEN <<>>
        ELSE SelectSeq(log_paths,
                       LAMBDA f : f \notin Range(Retain(log_paths, keep_count)))
LogsToRemove(listing, keep_count) ==
    LET log_paths == LogFiles(listing)
    IN  IF ~(Len(log_paths) > keep_count - 1) THEN <<>>
        ELSE SelectSeq(log_paths,
                       LAMBDA f : f \notin Range(Retain(log_paths, keep_count - 1)))

\* line 52 (the variant records no script)
ScriptsCountMutant(paths) == 0
ScriptsCount(paths) == Len(paths)

NoInit == [facade |-> 0, status |-> "none", errors |-> <<>>, log |-> <<>>]

NoDir == [exists |-> FALSE, files |-> {}]
Dir(files) == [exists |-> TRUE, files |-> files]

\* lines 49-68: __init__ up to the first os.remove, or to the end when no log is kept
InitFacade(o, opts) ==
    /\ pc = "idle" /\ o \notin built
    \* __init__ runs once on an object: a facade whose construction raised is gone
    /\ init_result.facade # o
    /\ scripts_count' = [scripts_count EXCEPT ![o] = ScriptsCount(psc_paths)]
    /\ options' = [options EXCEPT ![o] = opts]
    /\ attempts' = <<>>
    /\ IF ~opts.log_path
       THEN /\ built' = built \cup {o}
            /\ init_result' = [facade |-> o, status |-> "done", errors |-> <<>>, log |-> <<>>]
            /\ UNCHANGED <<pc, self, keep, logs_to_remove>>
       ELSE /\ self' = o
            /\ keep' = KeepCount
            /\ init_result' = [facade |-> o, status |-> "running", errors |-> <<>>, log |-> <<>>]
            /\ UNCHANGED built
            /\ IF ~log_dir.exists
               THEN pc' = "write" /\ logs_to_remove' = <<>>
               ELSE \E listing \in ListDir(log_dir.files) :
                        /\ logs_to_remove' = LogsToRemove(listing, KeepCount)
                        /\ pc' = IF logs_to_remove' = <<>> THEN "write" ELSE "remove"
    /\ UNCHANGED <<now, projectVars, fileVars, log_dir, success_count, command_count,
                   time_elapsed, compileVars, stageVars>>

\* what os.remove can do: delete the file, be denied, or fail in another way
RemoveOutcomes == {"removed", "PermissionError", "OSError"}

\* line 103: the exceptions the loop catches (the variant catches none)
CaughtMutant(outcome) == FALSE
Caught(outcome) == outcome = "PermissionError"

\* where _rotate_logs returns to: __init__ goes on to write its log, a call on a
\* constructed facade returns to the caller
AfterRotate == IF self \in built THEN "idle" ELSE "write"

\* lines 84-98: _rotate_logs(keep_count) called on a constructed facade
RotateLogs(o, k) ==
    /\ pc = "idle" /\ o \in built
    /\ options[o].log_path
    /\ keep' = k
    /\ attempts' = <<>>
    \* the errors logged and the way the call ends are those of this call
    /\ init_result' = [init_result EXCEPT !.status = "done", !.errors = <<>>]
    /\ IF ~log_dir.exists
       THEN \* line 85
            logs_to_remove' = <<>> /\ UNCHANGED <<pc, self>>
       ELSE \E listing \in ListDir(log_dir.files) :
                /\ logs_to_remove' = LogsToRemove(listing, k)
                /\ pc' = IF logs_to_remove' = <<>> THEN "idle" ELSE "remove"
                /\ self' = IF logs_to_remove' = <<>> THEN 0 ELSE o
    /\ UNCHANGED <<now, projectVars, fileVars, log_dir, built, options, statVars,
                   compileVars, stageVars>>

\* lines 100-104, one iteration
RemoveStep ==
    /\ pc = "remove"
    /\ LET f == logs_to_remove[Len(attempts) + 1]
           last == Len(attempts) + 1 = Len(logs_to_remove)
       IN  \E outcome \in RemoveOutcomes :
             /\ attempts' = Append(attempts, <<f, outcome>>)
             /\ log_dir' = IF outcome = "removed" THEN Dir(log_dir.files \ {f}) ELSE log_dir
             /\ IF outcome = "removed"
                THEN /\ pc' = IF last THEN AfterRotate ELSE "remove"
                     /\ self' = IF pc' = "idle" THEN 0 ELSE self
                     /\ UNCHANGED init_result
                ELSE IF Caught(outcome)
                THEN \* line 104: the error is logged and the loop goes on
                     /\ pc' = IF last THEN AfterRotate ELSE "remove"
                     /\ self' = IF pc' = "idle" THEN 0 ELSE self
                     /\ init_result' = [init_result EXCEPT !.errors = Append(@, f)]
                ELSE \* the exception leaves _rotate_logs, and __init__ if it is the caller
                     /\ pc' = "idle"
                     /\ self' = 0
                     /\ init_result' = [init_result EXCEPT !.status = "raised"]
    /\ UNCHANGED <<now, projectVars, fileVars, built, options, statVars, compileVars,
                   keep, logs_to_remove, stageVars>>

\* lines 70-82: the new log is written and __init__ returns
WriteLog ==
    /\ pc = "write"
    /\ log_dir' = Dir(log_dir.files \cup {LogName(now)})
    /\ init_result' = [init_result EXCEPT !.status = "done", !.log = LogName(now)]
    /\ built' = built \cup {self}
    /\ pc' = "idle"
    /\ self' = 0
    /\ UNCHANGED <<now, projectVars, fileVars, options, statVars, compileVars,
                   keep, logs_to_remove, attempts, stageVars>>

\* the clock moves on between two operations
Tick ==
    /\ pc = "idle"
    /\ now < MaxLogs + 2
    /\ now' = now + 1
    /\ UNCHANGED <<pc, self, projectVars, fileVars, log_dir, built, options, statVars,
                   compileVars, initVars, stageVars>>

\* ------------------------------------------------------------ specifications
\* the options a facade is constructed with
CompileOptions == [log_path : {FALSE}, no_parallel : BOOLEAN,
                   worker_limit : 1..(MaxCommands + 1), no_incremental_build : {FALSE}]
AnalyzerOptions == [log_path : {FALSE}, no_parallel : {TRUE},
                    worker_limit : {1}, no_incremental_build : BOOLEAN]
LogOptions == [log_path : {TRUE}, no_parallel : {TRUE},
               worker_limit : {1}, no_incremental_build : {FALSE}]

\* class attributes and locals as they are when the process starts
InitProcess ==
    /\ time_elapsed = [start_time |-> 0, end_time |-> 0]
    /\ pc = "idle"
    /\ self = 0
    /\ success_count = [o \in Facades |-> 0]
    /\ command_count = [o \in Facades |-> 0]
    /\ i = 1
    /\ results = <<>>
    /\ ran = <<>>
    /\ worker = <<>>
    /\ task = <<>>
    /\ next_task = 1
    /\ priority = [p \in {0} |-> NormalPriority]
    /\ compile_calls = [o \in Facades |-> 0]
    /\ success_before = [o \in Facades |-> 0]
    /\ keep = 0
    /\ logs_to_remove = <<>>
    /\ attempts = <<>>
    /\ init_result = NoInit
    /\ anon = NoAnon
    /\ report = NoReport

\* a project of one script whose artifact is up to date
InitOneScript ==
    /\ psc_paths = <<PscPath(<<"a">>)>>
    /\ pex_paths = <<PexPath(<<"a">>)>>
    /\ missing_scripts = {}
    /\ psc_mtime = [p \in {PscPath(<<"a">>)} |-> 1]
    /\ pex_file = [p \in {PexPath(<<"a">>)} |-> CompiledPex(2)]

\* the stages of the pipeline: any command list, any verdict of the compiler
Init ==
    /\ InitProcess
    /\ InitOneScript
    /\ now = 1
    /\ log_dir = NoDir
    /\ built = {}
    /\ options = [o \in Facades |-> NoOptions]
    /\ scripts_count = [o \in Facades |-> 0]
    /\ \E count \in 0..MaxCommands :
         /\ commands = [k \in 1..count |-> k]
         /\ verdict \in [1..MaxCommands -> {SUCCESS, FAILURE}]
         /\ \A c \in 1..MaxCommands : c > count => verdict[c] = SUCCESS

Construct(o) == \E opts \in CompileOptions : InitFacade(o, opts)

\* a call of one of the four stage methods of facade o
StageCall(o) ==
    \/ CompileBegin(o)
    \/ TryAnonymize(o)
    \/ TryPack(o)
    \/ TryZip(o)

\* a step of the try_compile call in progress, by the main process or a worker
CompileStep ==
    \/ SeqStep
    \/ \E w \in DOMAIN worker :
         \/ WorkerInit(w)
         \/ WorkerInitFail(w)
         \/ PoolRespawn(w)
         \/ WorkerTake(w)
         \/ WorkerFinish(w)
         \/ WorkerExit(w)
    \/ Collect
    \/ PoolClose
    \/ CompileEnd

\* one facade and its pipeline
Next ==
    \/ Construct(1)
    \/ StageCall(1)
    \/ CompileStep

Spec == Init /\ [][Next]_vars

\* one facade, its pipeline and the reads of its build_time property; the pool, if
\* any, has one worker or two
StatsOptions == {opts \in CompileOptions : opts.worker_limit <= 2}

ConstructStats(o) == \E opts \in StatsOptions : InitFacade(o, opts)

NextStats ==
    \/ ConstructStats(1)
    \/ StageCall(1)
    \/ BuildTime(1)
    \/ CompileStep

SpecStats == Init /\ [][NextStats]_vars

\* two facades of one process built for the same project, the first with
\* no_parallel set and the second without
SeqOptions == {opts \in CompileOptions : opts.no_parallel /\ opts.worker_limit = 1}
\* (a worker limit above the longest command list gives the pools of one equal to it)
PoolOptions == {opts \in CompileOptions :
                    ~opts.no_parallel /\ opts.worker_limit <= MaxCommands}

ConstructSeq(o) == \E opts \in SeqOptions : InitFacade(o, opts)
ConstructPool(o) == \E opts \in PoolOptions : InitFacade(o, opts)

NextPair ==
    \/ ConstructSeq(1)
    \/ ConstructPool(2)
    \/ \E o \in Facades : CompileBegin(o)
    \/ CompileStep

SpecPair == Init /\ [][NextPair]_vars

\* the analyzer and try_anonymize over every small project: one facade, built
MissingChoices == {{}, {<<"b">>}}

InitAnalyzer ==
    /\ InitProcess
    /\ now = 1
    /\ log_dir = NoDir
    /\ built = {1}
    /\ commands = <<>>
    /\ verdict = [c \in 1..MaxCommands |-> SUCCESS]
    /\ psc_paths \in DistinctSeqs(PscUniverse, MaxScripts)
    /\ pex_paths \in DistinctSeqs(PexUniverse, MaxArtifacts)
    /\ missing_scripts \in MissingChoices
    /\ psc_mtime \in [Range(psc_paths) -> Times]
    /\ pex_file \in [Range(pex_paths) -> PexStates]
    /\ scripts_count = [o \in Facades |-> IF o = 1 THEN Len(psc_paths) ELSE 0]
    /\ \E opts \in AnalyzerOptions : options = [o \in Facades |-> IF o = 1 THEN opts ELSE NoOptions]

NextAnalyzer == TryAnonymize(1)

SpecAnalyzer == InitAnalyzer /\ [][NextAnalyzer]_vars

\* the construction of one facade with a log directory of any content
LogUniverse == {LogName(t) : t \in 1..MaxLogs} \cup {OtherFile}

InitRotate ==
    /\ InitProcess
    /\ InitOneScript
    /\ now \in {MaxLogs, MaxLogs + 1}
    /\ log_dir \in {NoDir} \cup {Dir(files) : files \in SUBSET LogUniverse}
    /\ built = {}
    /\ options = [o \in Facades |-> NoOptions]
    /\ scripts_count = [o \in Facades |-> 0]
    /\ commands = <<>>
    /\ verdict = [c \in 1..MaxCommands |-> SUCCESS]

ConstructLogged(o) == \E opts \in LogOptions : InitFacade(o, opts)

NextRotate ==
    \/ ConstructLogged(1)
    \/ RemoveStep
    \/ WriteLog
    \/ Tick

SpecRotate == InitRotate /\ [][NextRotate]_vars

\* _rotate_logs called with any retention count on a constructed facade that keeps
\* logs, the directory having any content
HelperUniverse == {LogName(t) : t \in 1..MaxHelperLogs} \cup {OtherFile}

InitHelper ==
    /\ InitProcess
    /\ InitOneScript
    /\ now = MaxHelperLogs + 1
    /\ log_dir \in {NoDir} \cup {Dir(files) : files \in SUBSET HelperUniverse}
    /\ built = {1}
    /\ \E opts \in LogOptions :
         options = [o \in Facades |-> IF o = 1 THEN opts ELSE NoOptions]
    /\ scripts_count = [o \in Facades |-> IF o = 1 THEN Len(psc_paths) ELSE 0]
    /\ commands = <<>>
    /\ verdict = [c \in 1..MaxCommands |-> SUCCESS]

NextHelper ==
    \/ \E k \in 1..MaxKeep : RotateLogs(1, k)
    \/ RemoveStep

SpecHelper == InitHelper /\ [][NextHelper]_vars

\* successive runs of the program, each constructing one facade that keeps logs in
\* the same directory, empty or absent before the first run; no deletion fails
InitRuns ==
    /\ InitProcess
    /\ InitOneScript
    /\ now = 1
    /\ log_dir \in {NoDir, Dir({})}
    /\ built = {}
    /\ options = [o \in Facades |-> NoOptions]
    /\ scripts_count = [o \in Facades |-> 0]
    /\ commands = <<>>
    /\ verdict = [c \in 1..MaxCommands |-> SUCCESS]

\* lines 100-102 when os.remove succeeds
RemoveStepOk == RemoveStep /\ attempts'[Len(attempts')][2] = "removed"

\* the process exits and the program is started again, later: the class attributes
\* and every object are new, the files stay
NewProcess ==
    /\ pc = "idle" /\ built # {}
    /\ now < MaxRuns
    /\ now' = now + 1
    \* the new process starts as InitProcess says
    /\ time_elapsed' = [start_time |-> 0, end_time |-> 0]
    /\ self' = 0
    /\ success_count' = [o \in Facades |-> 0]
    /\ command_count' = [o \in Facades |-> 0]
    /\ i' = 1
    /\ results' = <<>>
    /\ ran' = <<>>
    /\ worker' = <<>>
    /\ task' = <<>>
    /\ next_task' = 1
    /\ priority' = [p \in {0} |-> NormalPriority]
    /\ compile_calls' = [o \in Facades |-> 0]
    /\ success_before' = [o \in Facades |-> 0]
    /\ keep' = 0
    /\ logs_to_remove' = <<>>
    /\ attempts' = <<>>
    /\ init_result' = NoInit
    /\ anon' = NoAnon
    /\ report' = NoReport
    /\ built' = {}
    /\ options' = [o \in Facades |-> NoOptions]
    /\ scripts_count' = [o \in Facades |-> 0]
    /\ UNCHANGED <<pc, projectVars, fileVars, log_dir>>

NextRuns ==
    \/ ConstructLogged(1)
    \/ RemoveStepOk
    \/ WriteLog
    \/ NewProcess

SpecRuns == InitRuns /\ [][NextRuns]_vars

\* ------------------------------------------------------------------ claims
\* how many commands of the project the compiler accepts
Successes == Cardinality({k \in 1..Len(commands) : verdict[commands[k]] = SUCCESS})

\* try_compile has been called and has returned
Returned == pc = "idle" /\ TotalCalls > 0

\* the facade took the pooled branch: no_parallel unset and two commands or more
Pooled(o) == ~options[o].no_parallel /\ Len(commands) >= 2

\* C1: in every reachable state of a facade, 0 <= success_count <= command_count,
\* so failed_count is never negative (stated as claimed; a second try_compile breaks it)
C1_CountsInRange ==
    \A o \in Facades :
        /\ 0 <= success_count[o]
        /\ success_count[o] <= command_count[o]
        /\ command_count[o] - success_count[o] >= 0

\* C2: fail-soft batch: no command is ever run twice, and when try_compile has
\* returned every command of the list has run exactly once and reported its outcome,
\* whatever the outcomes of the others, in the sequential and in the pooled branch
C2_FailSoft ==
    /\ \A k \in DOMAIN ran : ran[k] <= 1
    /\ Returned =>
         /\ DOMAIN ran = 1..Len(commands)
         /\ \A k \in 1..Len(commands) : ran[k] = 1 /\ results[k] = verdict[commands[k]]
         /\ \A o \in Facades :
              compile_calls[o] > 0 =>
                  Cardinality({k \in DOMAIN results : results[k] # PENDING}) = command_count[o]

\* a pooled call has returned although the first of three commands failed
C2_Witness ==
    /\ Returned /\ Pooled(1) /\ compile_calls[1] = 1
    /\ Len(commands) = 3
    /\ verdict[commands[1]] = FAILURE
    /\ \A k \in 1..3 : ran[k] = 1

\* C3: in the pooled branch, whatever the order in which the workers finish, the
\* call has added exactly one to success_count for each SUCCESS outcome it has
\* collected, and when it has returned it has added the number of commands that succeed
C3_PoolCountsSuccesses ==
    /\ (pc \in {"pool", "join"}) =>
           success_count[self] - success_before[self] =
               Cardinality({k \in 1..(i - 1) : verdict[commands[k]] = SUCCESS})
    /\ \A o \in Facades :
           (Returned /\ compile_calls[o] > 0 /\ Pooled(o)) =>
               success_count[o] - success_before[o] = Successes

\* the pool finished the third command before the first, and two of three succeeded
C3_Witness ==
    /\ pc = "pool" /\ Len(commands) = 3
    /\ results[1] = PENDING /\ results[3] = SUCCESS /\ results[2] = FAILURE
    /\ verdict[commands[1]] = SUCCESS

\* C4: a fresh facade with no_parallel set and a fresh facade with no_parallel unset,
\* each after one try_compile of the same commands with the same outcomes, hold the
\* same (success_count, command_count)
C4_StrategyIndependent ==
    \A o1, o2 \in Facades :
        ( /\ pc = "idle"
          /\ compile_calls[o1] = 1 /\ compile_calls[o2] = 1
          /\ options[o1].no_parallel /\ ~options[o2].no_parallel )
        => /\ success_count[o1] = success_count[o2]
           /\ command_count[o1] = command_count[o2]

\* both facades have compiled three commands, one of which fails, the second in a pool
C4_Witness ==
    /\ pc = "idle"
    /\ compile_calls[1] = 1 /\ compile_calls[2] = 1
    /\ options[1].no_parallel /\ Pooled(2)
    /\ Len(commands) = 3 /\ Successes = 2
    /\ success_count[1] = 2 /\ success_count[2] = 2

\* C5: while a pool exists it has exactly min(command_count, worker_limit) workers, and
\* the commands running at once are never more than that, than worker_limit, or
\* than command_count
C5_PoolBound ==
    (pc \in {"pool", "join"}) =>
        LET limit == options[self].worker_limit
            count == command_count[self]
            size == Cardinality(DOMAIN worker)
            running == Cardinality({w \in DOMAIN worker : worker[w] = "busy"})
        IN  /\ size = (IF count <= limit THEN count ELSE limit)
            /\ running <= size
            /\ running <= limit
            /\ running <= count

\* worker_limit is larger than the command count and every worker of the pool is busy
C5_Witness ==
    /\ pc = "pool"
    /\ options[self].worker_limit > Len(commands)
    /\ \A w \in DOMAIN worker : worker[w] = "busy"
    /\ Cardinality(DOMAIN worker) = Len(commands)

\* C6: when try_compile has returned, the end time has been recorded after the
\* start time, every command has reported its outcome, none is in flight and no
\* worker of the pool is alive
C6_DrainedOnReturn ==
    Returned =>
        /\ time_elapsed.end_time > time_elapsed.start_time
        /\ \A k \in DOMAIN results : results[k] # PENDING
        /\ \A w \in DOMAIN worker : worker[w] = "ended" /\ task[w] = 0

\* a pooled call in which every command failed has returned
C6_Witness ==
    /\ Returned /\ Pooled(1)
    /\ Len(commands) = 3 /\ Successes = 0
    /\ Cardinality(DOMAIN worker) >= 2
    /\ \A w \in DOMAIN worker : worker[w] = "ended"

\* the artifact the analyzer matches with a source script: the first of pex_paths
\* whose path ends in '<base name>.pex'; <<>> when there is none
Matched(psc_path) ==
    LET name == SubSeq(psc_path, 3, Len(psc_path) - 1) \o <<".pex">>
        hits == {k \in 1..Len(pex_paths) : EndsWith(pex_paths[k], name)}
    IN  IF hits = {} THEN <<>>
        ELSE pex_paths[CHOOSE k \in hits : \A h \in hits : k <= h]

\* the matched artifact is on disk and its header can be read
Comparable(psc_path) ==
    /\ Matched(psc_path) # <<>>
    /\ pex_file[Matched(psc_path)].exists
    /\ pex_file[Matched(psc_path)].magic

\* C7: for every source script S with a matched artifact A that is on disk with a
\* readable header, A is in the analyzer's result if and only if S's modification
\* time is strictly less than A's compile time; the other sources contribute nothing
\* (stated as claimed; two sources matched with one artifact break it)
C7_ResultIffOlder ==
    anon.facade # 0 =>
        /\ \A S \in Range(psc_paths) :
               Comparable(S) =>
                   (Matched(S) \in Range(anon.scripts)
                        <=> psc_mtime[S] < pex_file[Matched(S)].compiled)
        /\ \A A \in Range(anon.scripts) :
               \E S \in Range(psc_paths) : Comparable(S) /\ Matched(S) = A

\* C9: try_anonymize is skipped (the error is logged, the anonymize capability is
\* invoked on no artifact) if and only if the analyzer's result is empty, there is
\* no missing script and no_incremental_build is false; otherwise no error is logged
\* and every artifact path is visited
C9_SkipRule ==
    anon.facade # 0 =>
        LET nothing_to_do == /\ anon.scripts = <<>>
                             /\ missing_scripts = {}
                             /\ options[anon.facade].no_incremental_build = FALSE
        IN  /\ (anon.error /\ anon.anonymized = <<>>) <=> nothing_to_do
            /\ ~nothing_to_do =>
                   /\ ~anon.error
                   /\ Range(anon.anonymized) \cup Range(anon.warnings) = Range(pex_paths)
            /\ nothing_to_do => anon.warnings = <<>>

\* the stage was skipped although an artifact is on disk: none was anonymized
C9_Witness ==
    /\ anon.facade = 1 /\ anon.error
    /\ anon.anonymized = <<>>
    /\ \E p \in Range(pex_paths) : pex_file[p].exists /\ pex_file[p].magic
    /\ psc_paths # <<>>

\* the run logs among the file names, and the n most recent of a set of run logs
LogsIn(files) == {f \in files : f[3] = ".log"}
Newest(logs, n) == {f \in logs : Cardinality({g \in logs : g[2] > f[2]}) < n}

\* the files this construction has deleted
Removed == {attempts[k][1] : k \in {j \in 1..Len(attempts) : attempts[j][2] = "removed"}}
NoFailure == \A k \in 1..Len(attempts) : attempts[k][2] = "removed"

\* C8: when rotation is over and no deletion failed, the run logs left are exactly
\* the KeepCount - 1 most recent of those that existed, and nothing is deleted when
\* KeepCount - 1 or fewer existed; with 6 existing logs the 2 oldest are deleted
\* (stated as claimed; the listing order of the directory breaks it)
C8_KeepsMostRecent ==
    (pc = "write" /\ NoFailure) =>
        LET existing == LogsIn(log_dir.files) \cup Removed
        IN  IF Cardinality(existing) > KeepCount - 1
            THEN LogsIn(log_dir.files) = Newest(existing, KeepCount - 1)
            ELSE Removed = {}

\* C10 as claimed: whatever the outcome of a deletion, construction goes on: it
\* never ends by raising, and it ends with every candidate attempted once and the
\* new log written
C10_AnyFailureTolerated ==
    (pc = "idle" /\ init_result.facade # 0 /\ options[init_result.facade].log_path) =>
        /\ init_result.status = "done"
        /\ [k \in 1..Len(attempts) |-> attempts[k][1]] = logs_to_remove
        /\ init_result.log \in log_dir.files

\* C10 as amended: a deletion denied with PermissionError is logged and the loop
\* goes on: the candidates are attempted once each, in order; construction ends
\* with all of them attempted and the new log written unless a deletion failed
\* with another error, which alone makes __init__ raise
C10_PermissionErrorTolerated ==
    /\ Len(attempts) <= Len(logs_to_remove)
    /\ \A k \in 1..Len(attempts) : attempts[k][1] = logs_to_remove[k]
    /\ init_result.errors =
           SelectSeq([k \in 1..Len(attempts) |-> attempts[k][1]],
                     LAMBDA f : \E k \in 1..Len(attempts) :
                                    attempts[k] = <<f, "PermissionError">>)
    /\ \A k \in 1..Len(attempts) :
           attempts[k][2] = "OSError" => (k = Len(attempts) /\ init_result.status = "raised")
    /\ init_result.status = "raised" =>
           (attempts # <<>> /\ attempts[Len(attempts)][2] = "OSError")
    /\ (init_result.status = "done" /\ options[init_result.facade].log_path) =>
           /\ Len(attempts) = Len(logs_to_remove)
           /\ init_result.log \in log_dir.files
           /\ init_result.facade \in built

\* the first deletion was denied, the second was made, and the new log was written
C10_Witness ==
    /\ init_result.status = "done"
    /\ Len(attempts) = 2
    /\ attempts[1][2] = "PermissionError" /\ attempts[2][2] = "removed"
    /\ init_result.errors = <<attempts[1][1]>>
    /\ init_result.log \in log_dir.files

\* the process.nice call of the process in pool slot w was refused
Refused(w) == priority[w].calls > 0 /\ ~priority[w].low

\* C11: priority throttling is best-effort: while the pool runs, a worker whose
\* process.nice call was refused at startup is not failed: its process is alive,
\* waiting for a command or running one
\* (stated as claimed; the exception raised in the initializer ends the worker)
C11_BestEffortPriority ==
    \A w \in DOMAIN worker :
        (pc = "pool" /\ Refused(w)) => worker[w] \in {"ready", "busy"}

\* C19: in the pooled branch a worker process calls process.nice at most once; a
\* worker that waits for a command or runs one has called it exactly once, at its
\* startup, and runs with lowered priority, however many commands it has taken; a
\* worker that has not run the initializer yet holds no command; the main process
\* never calls it, and the sequential branch and the empty branch have no other
\* process than the main one
C19_LowersOnceAtStartup ==
    /\ priority[0] = NormalPriority
    /\ DOMAIN priority = {0} \cup DOMAIN worker
    /\ \A w \in DOMAIN worker :
         /\ priority[w].calls <= 1
         /\ worker[w] \in {"ready", "busy"} => priority[w] = [calls |-> 1, low |-> TRUE]
         /\ worker[w] = "starting" => (priority[w] = NormalPriority /\ task[w] = 0)
    /\ (pc \in {"seq", "none"}) => DOMAIN worker = {}

\* the only worker of a pool runs its second command, having lowered its
\* priority once
C19_Witness ==
    /\ pc = "pool" /\ DOMAIN worker = {1}
    /\ worker[1] = "busy" /\ task[1] = 2 /\ ran[1] = 1
    /\ priority[1] = [calls |-> 1, low |-> TRUE]
    /\ priority[0] = NormalPriority

\* the step belongs to a try_compile call of facade o: its entry or a later step
CompileStepOf(o) ==
    \/ pc = "idle" /\ pc' \in {"seq", "pool", "none"} /\ self' = o
    \/ pc \in {"seq", "pool", "join", "none"} /\ self = o

\* the step is the start of the construction of facade o
ConstructionOf(o) == o \notin built /\ init_result.facade # o /\ init_result'.facade = o

Added(k) == Contribution(psc_paths[k], pex_paths, psc_mtime, pex_file)

\* the position of the first source script that adds artifact A
FirstSource(A) ==
    CHOOSE k \in 1..Len(psc_paths) :
        /\ Added(k) = <<A>>
        /\ \A j \in 1..(k - 1) : Added(j) # <<A>>

\* C13: the analyzer's result holds every artifact that some source script adds, each
\* of them once, in the order of the first source script that adds it, also when
\* several source scripts add the same artifact
C13_NoDuplicateFirstOccurrence ==
    anon.facade # 0 =>
        /\ Range(anon.scripts) = {A \in Range(pex_paths) :
                                      \E k \in 1..Len(psc_paths) : Added(k) = <<A>>}
        /\ \A j, k \in 1..Len(anon.scripts) :
               /\ j # k => anon.scripts[j] # anon.scripts[k]
               /\ j < k => FirstSource(anon.scripts[j]) < FirstSource(anon.scripts[k])

\* two source scripts add the same artifact and the result lists it once
C13_Witness ==
    /\ anon.facade = 1 /\ Len(psc_paths) = 2
    /\ Added(1) # <<>> /\ Added(1) = Added(2)
    /\ anon.scripts = Added(1)

\* how many times path p occurs in the sequence s
Occurrences(s, p) == Cardinality({k \in 1..Len(s) : s[k] = p})

\* C14: when try_anonymize is not skipped it goes through every artifact path of the
\* project, in the analyzer's result or not: anonymize_script is called exactly once
\* with each path that is a file and never with one that is not; a path that is not
\* a file gets one warning, and the paths after it are processed all the same
C14_VisitsEveryArtifact ==
    (anon.facade # 0 /\ ~anon.error) =>
        /\ \A p \in Range(pex_paths) :
               IF pex_file[p].exists
               THEN Occurrences(anon.anonymized, p) = 1 /\ Occurrences(anon.warnings, p) = 0
               ELSE Occurrences(anon.anonymized, p) = 0 /\ Occurrences(anon.warnings, p) = 1
        /\ Range(anon.anonymized) \cup Range(anon.warnings) = Range(pex_paths)
        /\ \A j, k \in 1..Len(pex_paths) :
               (j < k /\ ~pex_file[pex_paths[j]].exists /\ pex_file[pex_paths[k]].exists)
                   => pex_paths[k] \in Range(anon.anonymized)

\* the first artifact is absent and the second, which is on disk but not in the
\* analyzer's result, was anonymized after the warning
C14_Witness ==
    /\ anon.facade = 1 /\ ~anon.error
    /\ Len(pex_paths) = 2
    /\ ~pex_file[pex_paths[1]].exists /\ pex_file[pex_paths[2]].exists
    /\ pex_paths[2] \notin Range(anon.scripts)
    /\ anon.anonymized = <<pex_paths[2]>>
    /\ anon.warnings = <<pex_paths[1]>>

\* C16: every artifact of the analyzer's result has a source script of the same base
\* name that is strictly older than it: no artifact is reported up to date on the
\* strength of a source script with another base name
\* (stated as claimed; the match by path suffix breaks it)
C16_MatchedByBaseName ==
    anon.facade # 0 =>
        \A A \in Range(anon.scripts) :
            \E S \in Range(psc_paths) :
                /\ ScriptName(S) = StripExt(Basename(A))
                /\ psc_mtime[S] < pex_file[A].compiled

\* the statistics facade q reports: its own three counts and the TimeElapsed object
\* that q.time_elapsed refers to, which is the one object of the class (line 28)
StatsOf(q) == <<scripts_count[q], success_count[q], command_count[q],
                time_elapsed.start_time, time_elapsed.end_time, Value(time_elapsed)>>

\* C17: the statistics are per facade: a step of the try_compile of one facade leaves
\* the counts, the start and end times and the elapsed time of every other
\* constructed facade as they were
\* (stated as claimed; the TimeElapsed object shared by all facades breaks it)
C17_StatsPerInstance ==
    [][ \A o, q \in Facades :
            (o # q /\ q \in built /\ CompileStepOf(o)) => StatsOf(q)' = StatsOf(q)
      ]_vars

\* try_compile is running
Compiling == pc \in {"seq", "pool", "join", "none"}

\* C18: while try_compile runs: if no_parallel is set or there is at most one
\* command, no pool exists and the commands run so far are a prefix of the list,
\* each run once by the main loop; a pool exists only if no_parallel is unset and
\* there are two commands or more, and then it does exist; with no command at all
\* nothing is run, no pool exists, success_count stays what it was and the call
\* can return, whatever no_parallel is
C18_StrategySelection ==
    /\ Compiling =>
         LET count == Len(commands)
             one_by_one == options[self].no_parallel \/ count <= 1
         IN  /\ command_count[self] = count
             /\ one_by_one =>
                  /\ pc \in {"seq", "none"}
                  /\ DOMAIN worker = {}
                  /\ \A k \in 1..count : ran[k] = (IF k < i THEN 1 ELSE 0)
             /\ (pc \in {"pool", "join"}) <=> (~options[self].no_parallel /\ count >= 2)
             /\ (pc \in {"pool", "join"}) => DOMAIN worker # {}
             /\ count = 0 =>
                  /\ ran = <<>> /\ results = <<>>
                  /\ success_count[self] = success_before[self]
                  /\ ENABLED CompileEnd
    /\ (Returned /\ Len(commands) = 0) =>
         \A o \in Facades : success_count[o] = success_before[o]

\* a single command is being run by the main loop although no_parallel is unset
\* and the worker limit is above one
C18_Witness ==
    /\ pc = "seq" /\ Len(commands) = 1
    /\ ~options[self].no_parallel /\ options[self].worker_limit > 1
    /\ i = 2 /\ ran = <<1>>
    /\ DOMAIN worker = {}

\* a direct _rotate_logs call has returned without any failed deletion
Rotated ==
    /\ pc = "idle" /\ keep >= 1
    /\ NoFailure /\ Len(attempts) = Len(logs_to_remove)

\* C20: for every retention count K >= 1 and every content of the log directory,
\* when _rotate_logs(K) has returned and no deletion failed, at most K - 1 run logs
\* are left in the directory; with K = 1 none is left
\* (stated as claimed; K = 1 breaks it)
C20_AtMostKMinusOneLeft ==
    Rotated => Cardinality(LogsIn(log_dir.files)) <= keep - 1

\* C15: over successive runs on a log directory that was empty or absent before the
\* first, each run constructing a facade with _rotate_logs(5), writing a log of a
\* new name, no deletion failing: the directory never holds more than 5 run logs,
\* the name a run writes its log under is not among the files it deletes, and the
\* log a run has written is in the directory
C15_BoundedAuditTrail ==
    /\ Cardinality(LogsIn(log_dir.files)) <= KeepCount
    /\ (pc \in {"remove", "write"}) => LogName(now) \notin Removed
    /\ init_result.status = "done" =>
           /\ init_result.log \in log_dir.files
           /\ init_result.log \notin Removed

\* the seventh run has deleted a log and written its own, the fifth in the directory
C15_Witness ==
    /\ init_result.status = "done" /\ init_result.log = LogName(7)
    /\ Cardinality(Removed) = 1
    /\ Cardinality(LogsIn(log_dir.files)) = 5

====
